---- MODULE Spec2Model ----
(***************************************************************************)
(* The two views of arcaders-1-5 (src/views/mod.rs), ViewA and ViewB, and  *)
(* the frame loop that drives them.  A view's render reads the frame's     *)
(* input snapshot (events.now) from the context, and either returns        *)
(* ViewAction::Quit, returns ViewAction::ChangeView with a newly boxed     *)
(* view of the other kind, or paints the renderer with its colour and      *)
(* returns ViewAction::None.  The loop (phi::spawn) is not part of         *)
(* views/mod.rs; it is modelled from the written description of the        *)
(* driver: one render call of the held view per frame, the returned action *)
(* decides whether to continue, to replace the held view, or to stop.      *)
(***************************************************************************)
EXTENDS Integers, Sequences, FiniteSets, TLC

VARIABLES
    pc,            \* position of the frame loop: "pump", "render", "dispatch", "done"
    current_view,  \* the boxed views the loop holds, as a sequence of view kinds
    context,       \* the Phi context: [renderer, events]
    elapsed,       \* the delta time handed to render this frame
    action,        \* the ViewAction returned by the last render call
    frames,        \* number of frames started
    initial_view,  \* the kind of the view the loop started with
    switches       \* number of frames started whose snapshot is a switch frame

vars == <<pc, current_view, context, elapsed, action, frames, initial_view, switches>>

-----------------------------------------------------------------------------
(* Bounds of the model *)

MaxFrames == 4
MaxElapsed == 1

-----------------------------------------------------------------------------
(* Values *)

\* Option<bool>: None is the empty sequence, Some(b) the one-element sequence.
None == <<>>
Some(b) == <<b>>
OptionBool == {None, Some(FALSE), Some(TRUE)}

\* sdl2::pixels::Color::RGB
RGB(r, g, b) == <<r, g, b>>

Views == {"ViewA", "ViewB"}

\* enum ViewAction { None, Quit, ChangeView(Box<View>) }
ViewAction_None == [tag |-> "None"]
ViewAction_Quit == [tag |-> "Quit"]
ViewAction_ChangeView(view) == [tag |-> "ChangeView", view |-> view]
ViewActions ==
    {ViewAction_None, ViewAction_Quit} \cup {ViewAction_ChangeView(v) : v \in Views}

\* Value of `action` before any render call has returned.
NoAction == [tag |-> "unset"]

\* The colours an externally created renderer may carry when the loop starts.
Palette == {RGB(0, 0, 0), RGB(255, 0, 0), RGB(0, 0, 255)}

\* events.now: the input snapshot of one frame.
ImmediateEvents == [quit : BOOLEAN, key_escape : OptionBool, key_space : OptionBool]

DeltaTimes == 0 .. MaxElapsed

-----------------------------------------------------------------------------
(* The renderer: its draw colour, the colour its target was last cleared   *)
(* to, and the calls made on it since the frame began.                     *)

set_draw_color(renderer, color) ==
    [renderer EXCEPT !.draw_color = color,
                     !.calls = Append(@, <<"set_draw_color", color>>)]

clear(renderer) ==
    [renderer EXCEPT !.target = renderer.draw_color,
                     !.calls = Append(@, <<"clear">>)]

-----------------------------------------------------------------------------
(* render: the returned action and the context the call leaves behind.     *)

\* Variants of ViewA::render carrying one slip each.
\* The switch is tested before the termination conditions.
ViewA_render_SpaceFirst(ctx, dt) ==
    LET events == ctx.events IN
    IF Some(TRUE) = events.now.key_space
    THEN [action |-> ViewAction_ChangeView("ViewB"), context |-> ctx]
    ELSE IF events.now.quit \/ Some(TRUE) = events.now.key_escape
    THEN [action |-> ViewAction_Quit, context |-> ctx]
    ELSE LET r1 == set_draw_color(ctx.renderer, RGB(255, 0, 0))
             r2 == clear(r1)
         IN  [action |-> ViewAction_None,
              context |-> [ctx EXCEPT !.renderer = r2]]

\* The switch boxes a view of the same kind.
ViewA_render_SelfSwitch(ctx, dt) ==
    LET events == ctx.events IN
    IF events.now.quit \/ Some(TRUE) = events.now.key_escape
    THEN [action |-> ViewAction_Quit, context |-> ctx]
    ELSE IF Some(TRUE) = events.now.key_space
    THEN [action |-> ViewAction_ChangeView("ViewA"), context |-> ctx]
    ELSE LET r1 == set_draw_color(ctx.renderer, RGB(255, 0, 0))
             r2 == clear(r1)
         IN  [action |-> ViewAction_None,
              context |-> [ctx EXCEPT !.renderer = r2]]

\* key_escape is unwrapped: the call panics when the key had no event.
ViewA_render_Unwrap(ctx, dt) ==
    LET events == ctx.events IN
    IF events.now.key_escape = None
    THEN [action |-> [tag |-> "panic"], context |-> ctx]
    ELSE IF events.now.quit \/ Some(TRUE) = events.now.key_escape
    THEN [action |-> ViewAction_Quit, context |-> ctx]
    ELSE IF Some(TRUE) = events.now.key_space
    THEN [action |-> ViewAction_ChangeView("ViewB"), context |-> ctx]
    ELSE LET r1 == set_draw_color(ctx.renderer, RGB(255, 0, 0))
             r2 == clear(r1)
         IN  [action |-> ViewAction_None,
              context |-> [ctx EXCEPT !.renderer = r2]]

\* Any space event switches, a release (Some(false)) included.
ViewA_render_SpaceIsSome(ctx, dt) ==
    LET events == ctx.events IN
    IF events.now.quit \/ Some(TRUE) = events.now.key_escape
    THEN [action |-> ViewAction_Quit, context |-> ctx]
    ELSE IF events.now.key_space # None
    THEN [action |-> ViewAction_ChangeView("ViewB"), context |-> ctx]
    ELSE LET r1 == set_draw_color(ctx.renderer, RGB(255, 0, 0))
             r2 == clear(r1)
         IN  [action |-> ViewAction_None,
              context |-> [ctx EXCEPT !.renderer = r2]]

\* Any escape event terminates, a release (Some(false)) included.
ViewA_render_EscapeIsSome(ctx, dt) ==
    LET events == ctx.events IN
    IF events.now.quit \/ events.now.key_escape # None
    THEN [action |-> ViewAction_Quit, context |-> ctx]
    ELSE IF Some(TRUE) = events.now.key_space
    THEN [action |-> ViewAction_ChangeView("ViewB"), context |-> ctx]
    ELSE LET r1 == set_draw_color(ctx.renderer, RGB(255, 0, 0))
             r2 == clear(r1)
         IN  [action |-> ViewAction_None,
              context |-> [ctx EXCEPT !.renderer = r2]]

\* The frame is painted before the input is looked at.
ViewA_render_DrawFirst(ctx, dt) ==
    LET events == ctx.events
        r1 == set_draw_color(ctx.renderer, RGB(255, 0, 0))
        r2 == clear(r1)
        painted == [ctx EXCEPT !.renderer = r2]
    IN
    IF events.now.quit \/ Some(TRUE) = events.now.key_escape
    THEN [action |-> ViewAction_Quit, context |-> painted]
    ELSE IF Some(TRUE) = events.now.key_space
    THEN [action |-> ViewAction_ChangeView("ViewB"), context |-> painted]
    ELSE [action |-> ViewAction_None, context |-> painted]

\* The space press is consumed: the switch path clears key_space.
ViewA_render_ConsumesSpace(ctx, dt) ==
    LET events == ctx.events IN
    IF events.now.quit \/ Some(TRUE) = events.now.key_escape
    THEN [action |-> ViewAction_Quit, context |-> ctx]
    ELSE IF Some(TRUE) = events.now.key_space
    THEN [action |-> ViewAction_ChangeView("ViewB"),
          context |-> [ctx EXCEPT !.events.now.key_space = None]]
    ELSE LET r1 == set_draw_color(ctx.renderer, RGB(255, 0, 0))
             r2 == clear(r1)
         IN  [action |-> ViewAction_None,
              context |-> [ctx EXCEPT !.renderer = r2]]

\* The elapsed time is used: a frame with no time elapsed is not repainted.
ViewA_render_UsesElapsed(ctx, dt) ==
    LET events == ctx.events IN
    IF events.now.quit \/ Some(TRUE) = events.now.key_escape
    THEN [action |-> ViewAction_Quit, context |-> ctx]
    ELSE IF Some(TRUE) = events.now.key_space
    THEN [action |-> ViewAction_ChangeView("ViewB"), context |-> ctx]
    ELSE IF dt = 0
    THEN [action |-> ViewAction_None, context |-> ctx]
    ELSE LET r1 == set_draw_color(ctx.renderer, RGB(255, 0, 0))
             r2 == clear(r1)
         IN  [action |-> ViewAction_None,
              context |-> [ctx EXCEPT !.renderer = r2]]

\* The draw colour is not set: the target is cleared with the colour in place.
ViewA_render_NoSetColor(ctx, dt) ==
    LET events == ctx.events IN
    IF events.now.quit \/ Some(TRUE) = events.now.key_escape
    THEN [action |-> ViewAction_Quit, context |-> ctx]
    ELSE IF Some(TRUE) = events.now.key_space
    THEN [action |-> ViewAction_ChangeView("ViewB"), context |-> ctx]
    ELSE LET r2 == clear(ctx.renderer)
         IN  [action |-> ViewAction_None,
              context |-> [ctx EXCEPT !.renderer = r2]]

ViewA_render(ctx, dt) ==
    LET events == ctx.events IN
    IF events.now.quit \/ Some(TRUE) = events.now.key_escape
    THEN [action |-> ViewAction_Quit, context |-> ctx]
    ELSE IF Some(TRUE) = events.now.key_space
    THEN [action |-> ViewAction_ChangeView("ViewB"), context |-> ctx]
    ELSE LET r1 == set_draw_color(ctx.renderer, RGB(255, 0, 0))
             r2 == clear(r1)
         IN  [action |-> ViewAction_None,
              context |-> [ctx EXCEPT !.renderer = r2]]

\* Variants of ViewB::render carrying one slip each.
\* The escape key is not looked at.
ViewB_render_NoEscape(ctx, dt) ==
    LET events == ctx.events IN
    IF events.now.quit
    THEN [action |-> ViewAction_Quit, context |-> ctx]
    ELSE IF Some(TRUE) = events.now.key_space
    THEN [action |-> ViewAction_ChangeView("ViewA"), context |-> ctx]
    ELSE LET r1 == set_draw_color(ctx.renderer, RGB(0, 0, 255))
             r2 == clear(r1)
         IN  [action |-> ViewAction_None,
              context |-> [ctx EXCEPT !.renderer = r2]]

\* The target is cleared before the draw colour is set.
ViewB_render_ClearFirst(ctx, dt) ==
    LET events == ctx.events IN
    IF events.now.quit \/ Some(TRUE) = events.now.key_escape
    THEN [action |-> ViewAction_Quit, context |-> ctx]
    ELSE IF Some(TRUE) = events.now.key_space
    THEN [action |-> ViewAction_ChangeView("ViewA"), context |-> ctx]
    ELSE LET r1 == clear(ctx.renderer)
             r2 == set_draw_color(r1, RGB(0, 0, 255))
         IN  [action |-> ViewAction_None,
              context |-> [ctx EXCEPT !.renderer = r2]]

\* The colour of ViewA is left in place.
ViewB_render_Red(ctx, dt) ==
    LET events == ctx.events IN
    IF events.now.quit \/ Some(TRUE) = events.now.key_escape
    THEN [action |-> ViewAction_Quit, context |-> ctx]
    ELSE IF Some(TRUE) = events.now.key_space
    THEN [action |-> ViewAction_ChangeView("ViewA"), context |-> ctx]
    ELSE LET r1 == set_draw_color(ctx.renderer, RGB(255, 0, 0))
             r2 == clear(r1)
         IN  [action |-> ViewAction_None,
              context |-> [ctx EXCEPT !.renderer = r2]]

\* The switch is taken unless space was released: None switches too.
ViewB_render_SpaceNotReleased(ctx, dt) ==
    LET events == ctx.events IN
    IF events.now.quit \/ Some(TRUE) = events.now.key_escape
    THEN [action |-> ViewAction_Quit, context |-> ctx]
    ELSE IF Some(FALSE) # events.now.key_space
    THEN [action |-> ViewAction_ChangeView("ViewA"), context |-> ctx]
    ELSE LET r1 == set_draw_color(ctx.renderer, RGB(0, 0, 255))
             r2 == clear(r1)
         IN  [action |-> ViewAction_None,
              context |-> [ctx EXCEPT !.renderer = r2]]

\* The switch boxes a view of the same kind.
ViewB_render_SelfSwitch(ctx, dt) ==
    LET events == ctx.events IN
    IF events.now.quit \/ Some(TRUE) = events.now.key_escape
    THEN [action |-> ViewAction_Quit, context |-> ctx]
    ELSE IF Some(TRUE) = events.now.key_space
    THEN [action |-> ViewAction_ChangeView("ViewB"), context |-> ctx]
    ELSE LET r1 == set_draw_color(ctx.renderer, RGB(0, 0, 255))
             r2 == clear(r1)
         IN  [action |-> ViewAction_None,
              context |-> [ctx EXCEPT !.renderer = r2]]

ViewB_render(ctx, dt) ==
    LET events == ctx.events IN
    IF events.now.quit \/ Some(TRUE) = events.now.key_escape
    THEN [action |-> ViewAction_Quit, context |-> ctx]
    ELSE IF Some(TRUE) = events.now.key_space
    THEN [action |-> ViewAction_ChangeView("ViewA"), context |-> ctx]
    ELSE LET r1 == set_draw_color(ctx.renderer, RGB(0, 0, 255))
             r2 == clear(r1)
         IN  [action |-> ViewAction_None,
              context |-> [ctx EXCEPT !.renderer = r2]]

\* Dynamic dispatch of View::render on the kind of the boxed view.
render(view, ctx, dt) ==
    IF view = "ViewA" THEN ViewA_render(ctx, dt) ELSE ViewB_render(ctx, dt)

-----------------------------------------------------------------------------
(* The frame loop *)

\* An optional key field counts as pressed when it is Some(true).
Pressed(key) == key = Some(TRUE)

\* The terminate condition and the switch condition of a frame.
QuitOrEscape(now) == now.quit \/ Pressed(now.key_escape)
SwitchFrame(now) == ~now.quit /\ ~Pressed(now.key_escape) /\ Pressed(now.key_space)

\* Variant of the replacement: the new view is kept beside the old one.
PushView(held, new_view) == Append(held, new_view)

\* `current_view = new_view`: the held box is dropped and replaced.
ReplaceView(held, new_view) == <<new_view>>

\* The view whose render the loop calls.
ActiveView == current_view[Len(current_view)]

Init ==
    /\ pc = "pump"
    /\ current_view \in {<<v>> : v \in Views}
    /\ context \in [renderer : [draw_color : Palette, target : Palette, calls : {<<>>}],
                    events : [now : {[quit |-> FALSE, key_escape |-> None,
                                      key_space |-> None]}]]
    /\ elapsed = 0
    /\ action = NoAction
    /\ frames = 0
    /\ initial_view = current_view[1]
    /\ switches = 0

\* A frame begins: the input snapshot of the frame and the elapsed time are
\* taken from the outside.
Pump ==
    /\ pc = "pump"
    /\ frames < MaxFrames
    /\ \E now \in ImmediateEvents, dt \in DeltaTimes :
          /\ context' = [context EXCEPT !.events.now = now, !.renderer.calls = <<>>]
          /\ elapsed' = dt
          /\ switches' = IF SwitchFrame(now) THEN switches + 1 ELSE switches
    /\ frames' = frames + 1
    /\ pc' = "render"
    /\ UNCHANGED <<current_view, action, initial_view>>

\* current_view.render(&mut context, elapsed) with ViewA held.
RenderA ==
    /\ pc = "render"
    /\ ActiveView = "ViewA"
    /\ LET out == ViewA_render(context, elapsed) IN
          /\ action' = out.action
          /\ context' = out.context
    /\ pc' = "dispatch"
    /\ UNCHANGED <<current_view, elapsed, frames, initial_view, switches>>

\* current_view.render(&mut context, elapsed) with ViewB held.
RenderB ==
    /\ pc = "render"
    /\ ActiveView = "ViewB"
    /\ LET out == ViewB_render(context, elapsed) IN
          /\ action' = out.action
          /\ context' = out.context
    /\ pc' = "dispatch"
    /\ UNCHANGED <<current_view, elapsed, frames, initial_view, switches>>

\* ViewAction::None: the loop goes on with the same view.
OnNone ==
    /\ pc = "dispatch"
    /\ action = ViewAction_None
    /\ pc' = "pump"
    /\ UNCHANGED <<current_view, context, elapsed, action, frames, initial_view, switches>>

\* ViewAction::ChangeView(new_view): the loop takes the new view.
OnChangeView ==
    /\ pc = "dispatch"
    /\ action.tag = "ChangeView"
    /\ current_view' = ReplaceView(current_view, action.view)
    /\ pc' = "pump"
    /\ UNCHANGED <<context, elapsed, action, frames, initial_view, switches>>

\* ViewAction::Quit: the loop ends.
OnQuit ==
    /\ pc = "dispatch"
    /\ action = ViewAction_Quit
    /\ pc' = "done"
    /\ UNCHANGED <<current_view, context, elapsed, action, frames, initial_view, switches>>

Next == Pump \/ RenderA \/ RenderB \/ OnNone \/ OnChangeView \/ OnQuit

Spec == Init /\ [][Next]_vars

-----------------------------------------------------------------------------
(* Vocabulary of the properties *)

\* The input snapshot of the running frame.
Now == context.events.now

Other(view) == IF view = "ViewA" THEN "ViewB" ELSE "ViewA"

\* A render call has returned and its action is not yet dispatched: `action`
\* is its result, Now the snapshot it read, ActiveView the view that ran.
Rendered == pc = "dispatch"

\* The step that is one render call.
RenderCall == pc = "render" /\ pc' = "dispatch"

\* The renderer calls made since the frame began.
Calls == context.renderer.calls

\* The swap A <-> B, red <-> blue on actions, colours and renderer calls.
MirrorColor(c) ==
    IF c = RGB(255, 0, 0) THEN RGB(0, 0, 255)
    ELSE IF c = RGB(0, 0, 255) THEN RGB(255, 0, 0) ELSE c
MirrorAction(a) ==
    IF a.tag = "ChangeView" THEN ViewAction_ChangeView(Other(a.view)) ELSE a
MirrorCall(c) ==
    IF c[1] = "set_draw_color" THEN <<"set_draw_color", MirrorColor(c[2])>> ELSE c
MirrorCalls(cs) == [i \in 1 .. Len(cs) |-> MirrorCall(cs[i])]

-----------------------------------------------------------------------------
(* Properties *)

\* C1: a render call of either view whose snapshot has quit = true returns
\* ViewAction::Quit, whatever key_escape and key_space are; in particular
\* terminate wins over a space press in the same frame.
C1_QuitTerminates ==
    (Rendered /\ Now.quit) => action = ViewAction_Quit

C1_Witness ==
    /\ Rendered /\ ActiveView = "ViewA"
    /\ Now.quit /\ Now.key_space = Some(TRUE) /\ Now.key_escape = None
    /\ action = ViewAction_Quit

\* C2: a render call of either view whose snapshot has key_escape = Some(true)
\* and quit = false returns ViewAction::Quit, whatever key_space is: escape
\* takes priority over the switch.
C2_EscapeTerminates ==
    (Rendered /\ ~Now.quit /\ Now.key_escape = Some(TRUE)) => action = ViewAction_Quit

C2_Witness ==
    /\ Rendered /\ ActiveView = "ViewB"
    /\ ~Now.quit /\ Now.key_escape = Some(TRUE) /\ Now.key_space = Some(TRUE)
    /\ action = ViewAction_Quit

\* C3: with key_space = Some(true), quit = false and escape not pressed, render
\* returns ChangeView with the other view (ViewA gives ViewB, ViewB gives
\* ViewA); no render call returns a switch to the kind of the view that ran.
C3_SpaceSwitchesToOther ==
    /\ (Rendered /\ SwitchFrame(Now)) => action = ViewAction_ChangeView(Other(ActiveView))
    /\ (Rendered /\ action.tag = "ChangeView") => action.view # ActiveView

C3_Witness ==
    /\ Rendered /\ ActiveView = "ViewA"
    /\ ~Now.quit /\ Now.key_escape = Some(FALSE) /\ Now.key_space = Some(TRUE)
    /\ action = ViewAction_ChangeView("ViewB")

\* C4: with quit false and neither escape nor space pressed, render returns
\* ViewAction::None and the renderer has received exactly one set_draw_color
\* call followed by exactly one clear call, with red (255,0,0) for ViewA and
\* blue (0,0,255) for ViewB.
C4_IdleFrameDraws ==
    (Rendered /\ ~Now.quit /\ ~Pressed(Now.key_escape) /\ ~Pressed(Now.key_space))
        => /\ action = ViewAction_None
           /\ Calls = <<<<"set_draw_color", IF ActiveView = "ViewA" THEN <<255, 0, 0>>
                                                                  ELSE <<0, 0, 255>>>>,
                        <<"clear">>>>

C4_Witness ==
    /\ Rendered /\ ActiveView = "ViewA"
    /\ ~Now.quit /\ Now.key_escape = Some(FALSE) /\ Now.key_space = Some(FALSE)
    /\ action = ViewAction_None
    /\ Calls = <<<<"set_draw_color", <<255, 0, 0>>>>, <<"clear">>>>

\* C5: ViewB is the mirror of ViewA: every render call of one view returns the
\* action and makes the renderer calls that the other view's render gives on
\* the same context, with red and blue exchanged and the switch target
\* exchanged.
C5_Mirror ==
    [][RenderCall =>
         LET other == render(Other(ActiveView), context, elapsed) IN
           /\ action' = MirrorAction(other.action)
           /\ context'.renderer.calls = MirrorCalls(other.context.renderer.calls)]_vars

C5_Witness ==
    /\ Rendered /\ ActiveView = "ViewB"
    /\ action = ViewAction_None
    /\ Calls = <<<<"set_draw_color", <<0, 0, 255>>>>, <<"clear">>>>

\* C6: while the loop is running it holds exactly one view, ViewA or ViewB; a
\* switch replaces the held view and never leaves the loop with no view or
\* with two.
C6_OneActiveView ==
    pc # "done" => (Len(current_view) = 1 /\ current_view[1] \in Views)

C6_Witness ==
    /\ pc = "pump"
    /\ action = ViewAction_ChangeView("ViewB")
    /\ current_view = <<"ViewB">>

\* C7: render is total: in every state where the loop is about to call render
\* the call can be made, and what it returns is one of ViewAction::None,
\* ViewAction::ChangeView and ViewAction::Quit; there is no other outcome.
C7_RenderTotal ==
    /\ pc = "render" => ENABLED (RenderA \/ RenderB)
    /\ Rendered => action \in ViewActions

C7_Witness ==
    /\ Rendered
    /\ Now = [quit |-> FALSE, key_escape |-> None, key_space |-> None]
    /\ action \in ViewActions

\* C8: the held view changes only from ViewA to ViewB or from ViewB to ViewA,
\* and only in a frame whose snapshot has space pressed, quit false and escape
\* not pressed; in every other frame the held view is left as it is.
C8_ChangeOnlyOnSpace ==
    [][current_view' # current_view =>
         /\ SwitchFrame(Now)
         /\ Len(current_view) = 1 /\ Len(current_view') = 1
         /\ current_view'[1] = Other(current_view[1])]_vars

C8_Witness ==
    /\ pc = "pump"
    /\ SwitchFrame(Now)
    /\ action = ViewAction_ChangeView("ViewA")
    /\ current_view = <<"ViewA">>

\* C9: the loop ends in exactly the frames where quit is requested or escape
\* is pressed: the render call of such a frame is followed by the end of the
\* loop within the frame, nothing happens once the loop has ended, and the
\* loop does not end in a frame without quit and escape.
C9_LoopEndsOnQuit ==
    [][/\ (Rendered /\ QuitOrEscape(Now)) => (pc' = "done" /\ frames' = frames)
       /\ pc = "done" => UNCHANGED vars
       /\ (pc # "done" /\ pc' = "done") => QuitOrEscape(Now)]_vars

C9_Witness ==
    /\ pc = "done"
    /\ ~Now.quit /\ Now.key_escape = Some(TRUE)
    /\ current_view = <<"ViewB">>

\* C10: a render call that returns Quit or ChangeView makes no renderer call
\* and leaves the draw colour and the target as they were; renderer calls are
\* made only by a call that returns ViewAction::None.
C10_NoDrawOnQuitOrSwitch ==
    [][RenderCall =>
         /\ action'.tag \in {"Quit", "ChangeView"} => context'.renderer = context.renderer
         /\ context'.renderer # context.renderer => action' = ViewAction_None]_vars

C10_Witness ==
    /\ Rendered
    /\ action.tag = "ChangeView"
    /\ Calls = <<>>
    /\ context.renderer.draw_color = RGB(0, 0, 255)
    /\ context.renderer.target = RGB(0, 0, 0)
\* C11: render never modifies the input snapshot of the context: on every
\* path (Quit, ChangeView, None) quit, key_escape and key_space have the same
\* values after the call as before it.
C11_SnapshotUntouched ==
    [][RenderCall =>
         /\ context'.events = context.events
         /\ context'.events.now.quit = context.events.now.quit
         /\ context'.events.now.key_escape = context.events.now.key_escape
         /\ context'.events.now.key_space = context.events.now.key_space]_vars

C11_Witness ==
    /\ Rendered /\ ActiveView = "ViewA"
    /\ Now = [quit |-> FALSE, key_escape |-> Some(FALSE), key_space |-> Some(TRUE)]
    /\ action = ViewAction_ChangeView("ViewB")
    /\ frames = 2

\* C12: the optional key fields count as pressed only when they are
\* Some(true): with quit = false, key_escape equal to None or Some(false) does
\* not terminate and key_space equal to None or Some(false) does not switch,
\* so a snapshot with quit = false and both keys in {None, Some(false)} gives
\* ViewAction::None and the draw.
C12_OnlySomeTrueIsPressed ==
    (Rendered /\ ~Now.quit) =>
        /\ Now.key_escape \in {None, Some(FALSE)} => action # ViewAction_Quit
        /\ Now.key_space \in {None, Some(FALSE)} => action.tag # "ChangeView"
        /\ (Now.key_escape \in {None, Some(FALSE)} /\ Now.key_space \in {None, Some(FALSE)})
              => /\ action = ViewAction_None
                 /\ Len(Calls) = 2
                 /\ context.renderer.target = context.renderer.draw_color
                 /\ context.renderer.target \in {RGB(255, 0, 0), RGB(0, 0, 255)}

C12_Witness ==
    /\ Rendered /\ ActiveView = "ViewB"
    /\ Now = [quit |-> FALSE, key_escape |-> Some(FALSE), key_space |-> None]
    /\ action = ViewAction_None
    /\ context.renderer.target = RGB(0, 0, 255)

\* C13: the views are stateless and ignore the elapsed time: the action and
\* the renderer calls of a render call depend only on the kind of the view and
\* on the (quit, key_escape, key_space) snapshot.  Every render call gives the
\* action and the calls that the same kind of view gives on the same snapshot
\* with any other elapsed time and any other renderer state left by earlier
\* frames.
C13_ResultDependsOnSnapshotOnly ==
    [][RenderCall =>
         \A dt \in DeltaTimes, draw_color \in Palette, target \in Palette :
            LET ctx == [context EXCEPT !.renderer.draw_color = draw_color,
                                       !.renderer.target = target]
                out == render(ActiveView, ctx, dt)
            IN  /\ out.action = action'
                /\ out.context.renderer.calls = context'.renderer.calls]_vars

C13_Witness ==
    /\ Rendered /\ ActiveView = "ViewA"
    /\ frames = 3 /\ elapsed = 0
    /\ Now = [quit |-> FALSE, key_escape |-> None, key_space |-> Some(FALSE)]
    /\ action = ViewAction_None
    /\ Calls = <<<<"set_draw_color", RGB(255, 0, 0)>>, <<"clear">>>>

\* C14: switching is an involution: between frames, after n switch frames
\* (space pressed, no quit, no escape) and no terminate, with any number of
\* no-change frames among them, the held view is the initial view exactly when
\* n is even; so two switch frames bring back the view the loop had.
C14_SwitchInvolution ==
    pc = "pump" =>
        /\ (switches % 2 = 0) <=> (ActiveView = initial_view)
        /\ (switches % 2 = 1) <=> (ActiveView = Other(initial_view))

C14_Witness ==
    /\ pc = "pump"
    /\ frames = 3 /\ switches = 2
    /\ action.tag = "ChangeView"
    /\ initial_view = "ViewA" /\ ActiveView = "ViewA"

\* C15: after every frame that returned ViewAction::None the renderer's draw
\* colour matches the held view: red if and only if ViewA is held, blue if and
\* only if ViewB is held.  The switch frame makes no renderer call, so right
\* after a switch the renderer may still carry the colour of the previous
\* view (C15_StaleAfterSwitch is such a state) until the next no-change frame.
C15_ColorMatchesAfterNoChange ==
    /\ (pc = "pump" /\ action = ViewAction_None) =>
          /\ context.renderer.draw_color = RGB(255, 0, 0) <=> ActiveView = "ViewA"
          /\ context.renderer.draw_color = RGB(0, 0, 255) <=> ActiveView = "ViewB"
    /\ (pc = "pump" /\ action.tag = "ChangeView") => Calls = <<>>

\* A no-change frame of ViewB that follows a switch away from ViewA.
C15_Witness ==
    /\ pc = "pump" /\ action = ViewAction_None
    /\ initial_view = "ViewA" /\ switches = 1 /\ frames = 3
    /\ ActiveView = "ViewB"
    /\ context.renderer.draw_color = RGB(0, 0, 255)
    /\ context.renderer.target = RGB(0, 0, 255)

\* Right after a switch from ViewA to ViewB that followed a no-change frame,
\* the renderer still carries red.
C15_StaleAfterSwitch ==
    /\ pc = "pump" /\ action = ViewAction_ChangeView("ViewB")
    /\ initial_view = "ViewA" /\ switches = 1 /\ frames = 2
    /\ ActiveView = "ViewB"
    /\ context.renderer.draw_color = RGB(255, 0, 0)


====
